---- MODULE Spec2Model ----
(***************************************************************************)
(* State machine of the meme generator's App component (src/types.ts).     *)
(* The React state slots are the variables; every event handler and every  *)
(* asynchronous completion (promise settlement, FileReader callback) is    *)
(* one atomic action, as on the single-threaded event loop.                *)
(***************************************************************************)
EXTENDS Bags, FiniteSets, Integers, Sequences, TLC

VARIABLES
  mode,             \* useState<AppMode>
  imageSrc,         \* useState<string | null>
  isLoading,        \* useState(false)
  error,            \* useState<string | null>
  captions,         \* useState<CaptionSuggestion[]>
  selectedCaption,  \* useState<string>
  topText,          \* useState("")
  bottomText,       \* useState("")
  editPrompt,       \* useState("")
  analysis,         \* useState<AnalysisResult | null>
  pending,          \* bag of asynchronous operations in flight
  nStarted,         \* history: number of asynchronous operations started
  loadSeq,          \* history: number of image loads completed so far
  captionsSrc,      \* history: provenance of the stored suggestions list
  analysisSrc,      \* history: provenance of the stored analysis result
  ev,               \* history: the handler or completion that ran last
  natW, natH,       \* native size of the image decoded by the render pass
  surfW, surfH,     \* canvas.width / canvas.height set by the render pass
  rpc,              \* position of the render pass
  calls,            \* the strokeText / fillText calls of the render pass
  metrics,          \* ctx.measureText: the advances of the font in use
  loopN,            \* the wrap loop unfolded: its index n
  loopLine,         \* the wrap loop unfolded: its variable line
  loopLines,        \* the wrap loop unfolded: its lineArray
  lastDeps,         \* dependency values the render effect last ran with
  canvasGen,        \* how many canvas elements have been mounted so far
  renders,          \* bag of render passes whose img.onload has not fired yet
  surface           \* what the mounted canvas shows

session == <<mode, imageSrc, isLoading, error, captions, selectedCaption,
             topText, bottomText, editPrompt, analysis>>
history == <<pending, nStarted, loadSeq, captionsSrc, analysisSrc, ev>>
loop    == <<loopN, loopLine, loopLines>>
pass    == <<natW, natH, surfW, surfH, rpc, calls, metrics, loop>>
effect  == <<lastDeps, canvasGen, renders, surface>>
render  == <<pass, effect>>
vars    == <<session, history, render>>

----------------------------------------------------------------------------
(* Bounds of the model *)

MaxPending == 2      \* asynchronous operations in flight at once
MaxOps     == 3      \* asynchronous operations started in one behaviour
MaxNative  == 1300   \* largest native image dimension fed to the render pass
MaxCaption == 4      \* longest caption (in characters) fed to the word wrap
MaxRenders == 2      \* render passes that may wait for their img.onload at once
MaxSurfaceOps == 2   \* operations started in one behaviour with the effect

----------------------------------------------------------------------------
(* Values *)

\* A nullable slot is a sequence of length at most one.
Null    == <<>>
Some(v) == <<v>>

\* Strings that are edited or measured are sequences of characters.
EmptyStr == <<>>

AppMode == {"CAPTION", "EDIT", "ANALYZE"}

TEMPLATES == <<"picsum/1025", "picsum/1074", "picsum/237", "picsum/1062">>

Files       == {"fileA"}             \* local files the user can pick
Blobs       == {"blobT"}             \* bodies a template fetch can return
EditResults == {"data:edited"}       \* images editImageWithGemini can return

\* FileReader.readAsDataURL: the content wrapped as a data URL.
DataUrl(content) == "data:" \o content

TopTexts    == {EmptyStr, <<"t">>}
BottomTexts == {EmptyStr, <<"b">>}
EditPrompts == {EmptyStr, <<" ">>, <<"x">>}

sugA == [text |-> <<"a">>, category |-> "Funny"]
sugB == [text |-> <<"b">>, category |-> "Dark"]
CaptionResponses  == {<<sugA>>, <<sugA, sugB>>}
AnalysisResponses == {[description |-> "d", tags |-> <<"tag">>]}

\* err.message of a rejected gateway call ("" when it carries none).
ErrMessages == {"", "quota exceeded"}

\* JavaScript a || b on strings.
OrElse(a, b) == IF a = "" THEN b ELSE a

\* String.prototype.trim on a sequence of characters.
RECURSIVE TrimLeft(_)
TrimLeft(s) == IF s # <<>> /\ Head(s) = " " THEN TrimLeft(Tail(s)) ELSE s
RECURSIVE TrimRight(_)
TrimRight(s) ==
  IF s # <<>> /\ s[Len(s)] = " " THEN TrimRight(SubSeq(s, 1, Len(s) - 1)) ELSE s
Trim(s) == TrimRight(TrimLeft(s))

\* An operation in flight: its kind, its argument (the image sent to the
\* gateway, the URL fetched, the blob or file read), the edit instruction,
\* and the load count when it was issued.
Op(kind, arg, prompt) ==
  [kind |-> kind, arg |-> arg, prompt |-> prompt, seq |-> loadSeq]

PendingOps(kind) == {o \in BagToSet(pending) : o.kind = kind}
NumPending == BagCardinality(pending)

Start(o)  == pending' = pending (+) SetToBag({o}) /\ nStarted' = nStarted + 1
Finish(o) == pending' = pending (-) SetToBag({o}) /\ nStarted' = nStarted

\* The model's bounds on the operations it starts.
CanStart == NumPending < MaxPending /\ nStarted < MaxOps

\* How the image a completing operation was issued for relates to the
\* session now: still the current one, replaced since, or cleared since.
Staleness(o) ==
  IF imageSrc = Null THEN "cleared"
  ELSE IF imageSrc = Some(o.arg) /\ o.seq = loadSeq THEN "fresh"
  ELSE "replaced"

\* The slots that resetState clears and that hold something now.
Held ==
  {n \in {"captions", "selectedCaption", "topText", "bottomText",
          "editPrompt", "analysis", "error"} :
     CASE n = "captions"        -> captions # <<>>
       [] n = "selectedCaption" -> selectedCaption # EmptyStr
       [] n = "topText"         -> topText # EmptyStr
       [] n = "bottomText"      -> bottomText # EmptyStr
       [] n = "editPrompt"      -> editPrompt # EmptyStr
       [] n = "analysis"        -> analysis # Null
       [] n = "error"           -> error # Null}

\* The record of the step taken: which handler or completion ran, the
\* staleness of the operation it completed, and which slots held something
\* when it ran.
Event(kind, stale) == [kind |-> kind, stale |-> stale, held |-> Held]

----------------------------------------------------------------------------
(* The Button component (./components/Button), as the specification        *)
(* describes it: a control is inert while the shared busy flag is shown on *)
(* it, or while it is disabled.                                            *)
ButtonEnabled(loadingProp, disabledProp) == ~loadingProp /\ ~disabledProp

\* The empty state (upload box, templates) is rendered when there is no
\* image; the workspace (canvas, tabs, panels) when there is one.
EmptyStateShown == imageSrc = Null
WorkspaceShown  == imageSrc # Null

----------------------------------------------------------------------------
(* Initial state: the useState defaults *)

SessionInit ==
  /\ mode = "CAPTION"
  /\ imageSrc = Null
  /\ isLoading = FALSE
  /\ error = Null
  /\ captions = <<>>
  /\ selectedCaption = EmptyStr
  /\ topText = EmptyStr
  /\ bottomText = EmptyStr
  /\ editPrompt = EmptyStr
  /\ analysis = Null
  /\ pending = EmptyBag
  /\ nStarted = 0
  /\ loadSeq = 0
  /\ captionsSrc = Null
  /\ analysisSrc = Null
  /\ ev = Event("init", "fresh")

\* The dependency array of the render effect.
Deps ==
  [imageSrc |-> imageSrc, selectedCaption |-> selectedCaption,
   topText |-> topText, bottomText |-> bottomText, mode |-> mode]

\* What a canvas shows: the image drawn to it and the texts drawn on top.
Canvas(mounted, image, selected, top, bottom) ==
  [mounted |-> mounted, image |-> image, selectedCaption |-> selected,
   topText |-> top, bottomText |-> bottom]

\* No canvas is mounted (the workspace is not rendered).
NoCanvas    == Canvas(FALSE, Null, EmptyStr, EmptyStr, EmptyStr)
\* A canvas that nothing has been drawn to yet.
BlankCanvas == Canvas(TRUE, Null, EmptyStr, EmptyStr, EmptyStr)

\* The effect has run for the initial render and found no image.
EffectIdle ==
  /\ lastDeps = Deps /\ canvasGen = 0 /\ renders = EmptyBag /\ surface = NoCanvas

\* Glyph advances are given in font units, UnitsPerEm of them to the font
\* size.
UnitsPerEm == 2048

\* The advances of the characters that captions are made of: Impact as the
\* browser measures it, and two fallback faces of the "sans-serif" family,
\* a narrow and a very wide one.
ImpactMetrics ==
  [space |-> 713, a |-> 1382, b |-> 1466,
   A |-> 1585, B |-> 1561, C |-> 1503, D |-> 1700, E |-> 1399]
CondensedMetrics ==
  [space |-> 410, a |-> 819, b |-> 860,
   A |-> 922, B |-> 900, C |-> 880, D |-> 940, E |-> 840]
WideMetrics ==
  [space |-> 819, a |-> 5120, b |-> 5120,
   A |-> 5120, B |-> 5120, C |-> 5120, D |-> 5120, E |-> 5120]

\* The native size of the images of a session: files, templates and edit
\* results alike.
NativeWidth  == 800
NativeHeight == 400

\* The wrap loop before its first iteration.
LoopIdle == loopN = 0 /\ loopLine = <<>> /\ loopLines = <<>>

\* No render pass has run yet.
RenderIdle ==
  /\ natW = NativeWidth /\ natH = NativeHeight
  /\ surfW = 0 /\ surfH = 0 /\ rpc = "idle"
  /\ calls = <<>> /\ metrics = ImpactMetrics /\ LoopIdle
  /\ EffectIdle

Init == SessionInit /\ RenderIdle

----------------------------------------------------------------------------
(* Image handling *)

\* resetState with the setEditPrompt("") call left out.
resetState_KeepsEditPrompt ==
  /\ captions' = <<>>
  /\ selectedCaption' = EmptyStr
  /\ topText' = EmptyStr
  /\ bottomText' = EmptyStr
  /\ editPrompt' = editPrompt
  /\ analysis' = Null
  /\ error' = Null
  /\ captionsSrc' = Null
  /\ analysisSrc' = Null

\* resetState with the setCaptions([]) call left out.
resetState_KeepsCaptions ==
  /\ captions' = captions
  /\ selectedCaption' = EmptyStr
  /\ topText' = EmptyStr
  /\ bottomText' = EmptyStr
  /\ editPrompt' = EmptyStr
  /\ analysis' = Null
  /\ error' = Null
  /\ captionsSrc' = captionsSrc
  /\ analysisSrc' = Null

resetState ==
  /\ captions' = <<>>
  /\ selectedCaption' = EmptyStr
  /\ topText' = EmptyStr
  /\ bottomText' = EmptyStr
  /\ editPrompt' = EmptyStr
  /\ analysis' = Null
  /\ error' = Null
  /\ captionsSrc' = Null
  /\ analysisSrc' = Null

\* handleFileUpload: a file was chosen; the read is started.
handleFileUpload(file) ==
  /\ EmptyStateShown
  /\ CanStart
  /\ Start(Op("fileRead", file, EmptyStr))
  /\ ev' = Event("handleFileUpload", "fresh")
  /\ UNCHANGED <<session, loadSeq, captionsSrc, analysisSrc, render>>

\* reader.onload of handleFileUpload: the read succeeded.
FileReaderOnload(o) ==
  /\ o \in PendingOps("fileRead")
  /\ Finish(o)
  /\ imageSrc' = Some(DataUrl(o.arg))
  /\ resetState
  /\ loadSeq' = loadSeq + 1
  /\ ev' = Event("fileLoaded", "fresh")
  /\ UNCHANGED <<mode, isLoading, render>>

\* The read failed: handleFileUpload installs no onerror handler.
FileReaderOnerror(o) ==
  /\ o \in PendingOps("fileRead")
  /\ Finish(o)
  /\ ev' = Event("fileReadFailed", "fresh")
  /\ UNCHANGED <<session, loadSeq, captionsSrc, analysisSrc, render>>

\* selectTemplate up to its first await.
selectTemplate(url) ==
  /\ EmptyStateShown
  /\ CanStart
  /\ isLoading' = TRUE
  /\ Start(Op("templateFetch", url, EmptyStr))
  /\ ev' = Event("selectTemplate", "fresh")
  /\ UNCHANGED <<mode, imageSrc, error, captions, selectedCaption, topText,
                 bottomText, editPrompt, analysis, loadSeq, captionsSrc,
                 analysisSrc, render>>

\* fetch resolved: the handler resumes, calls response.blob() and waits
\* again.
TemplateFetchResolved(o) ==
  /\ o \in PendingOps("templateFetch")
  /\ pending' = (pending (-) SetToBag({o}))
                  (+) SetToBag({[o EXCEPT !.kind = "templateBlob"]})
  /\ nStarted' = nStarted
  /\ ev' = Event("templateFetchResolved", "fresh")
  /\ UNCHANGED <<session, loadSeq, captionsSrc, analysisSrc, render>>

\* response.blob() resolved: the blob read is started.
TemplateBlobResolved(o, blob) ==
  /\ o \in PendingOps("templateBlob")
  /\ pending' = (pending (-) SetToBag({o}))
                  (+) SetToBag({[o EXCEPT !.kind = "templateRead",
                                          !.arg = blob]})
  /\ nStarted' = nStarted
  /\ ev' = Event("templateFetched", "fresh")
  /\ UNCHANGED <<session, loadSeq, captionsSrc, analysisSrc, render>>

\* The catch block of selectTemplate with setIsLoading(false) left out.
TemplateFetchFailed_StaysBusy(o) ==
  /\ o \in PendingOps("templateFetch") \cup PendingOps("templateBlob")
  /\ Finish(o)
  /\ error' = Some("Failed to load template")
  /\ ev' = Event("templateFetchFailed", "fresh")
  /\ UNCHANGED <<mode, imageSrc, isLoading, captions, selectedCaption,
                 topText, bottomText, editPrompt, analysis, loadSeq,
                 captionsSrc, analysisSrc, render>>

\* fetch or response.blob() rejected: the catch block.
TemplateFetchFailed(o) ==
  /\ o \in PendingOps("templateFetch") \cup PendingOps("templateBlob")
  /\ Finish(o)
  /\ error' = Some("Failed to load template")
  /\ isLoading' = FALSE
  /\ ev' = Event("templateFetchFailed", "fresh")
  /\ UNCHANGED <<mode, imageSrc, captions, selectedCaption, topText,
                 bottomText, editPrompt, analysis, loadSeq, captionsSrc,
                 analysisSrc, render>>

\* reader.onloadend of selectTemplate: it runs whether the read succeeded
\* (reader.result is the data URL) or failed (reader.result is null).
TemplateReaderOnloadend(o, ok) ==
  /\ o \in PendingOps("templateRead")
  /\ Finish(o)
  /\ imageSrc' = IF ok THEN Some(DataUrl(o.arg)) ELSE Null
  /\ isLoading' = FALSE
  /\ resetState
  /\ loadSeq' = IF ok THEN loadSeq + 1 ELSE loadSeq
  /\ ev' = Event(IF ok THEN "templateLoaded" ELSE "templateReadFailed", "fresh")
  /\ UNCHANGED <<mode, render>>

\* "Start over with new image" / "New Image": setImageSrc(null).
startOver ==
  /\ WorkspaceShown
  /\ imageSrc' = Null
  /\ ev' = Event("startOver", "fresh")
  /\ UNCHANGED <<mode, isLoading, error, captions, selectedCaption, topText,
                 bottomText, editPrompt, analysis, pending, nStarted, loadSeq,
                 captionsSrc, analysisSrc, render>>

----------------------------------------------------------------------------
(* AI actions: each handler up to its await, then its settlement *)

\* The statements every gateway handler runs before its await.
Issue(kind, prompt) ==
  /\ isLoading' = TRUE
  /\ error' = Null
  /\ Start(Op(kind, imageSrc[1], prompt))
  /\ ev' = Event(kind \o "Issued", "fresh")
  /\ UNCHANGED <<mode, imageSrc, captions, selectedCaption, topText,
                 bottomText, editPrompt, analysis, loadSeq, captionsSrc,
                 analysisSrc, render>>

\* A guard "if (...) return" that fired: the handler does nothing.
Return(kind) ==
  /\ ev' = Event(kind \o "Returned", "fresh")
  /\ UNCHANGED <<session, pending, nStarted, loadSeq, captionsSrc,
                 analysisSrc, render>>

\* A gateway handler whose setIsLoading(false) sits in the try block
\* instead of a finally block: a rejection leaves the flag set.
Catch_NoFinally(o, message, fallback) ==
  /\ Finish(o)
  /\ error' = Some(OrElse(message, fallback))
  /\ ev' = Event(o.kind \o "Failed", Staleness(o))
  /\ UNCHANGED <<mode, imageSrc, isLoading, captions, selectedCaption,
                 topText, bottomText, editPrompt, analysis, loadSeq,
                 captionsSrc, analysisSrc, render>>

\* A catch block that also empties the suggestions list.
Catch_ClearsCaptions(o, message, fallback) ==
  /\ Finish(o)
  /\ error' = Some(OrElse(message, fallback))
  /\ isLoading' = FALSE
  /\ captions' = <<>>
  /\ captionsSrc' = Null
  /\ ev' = Event(o.kind \o "Failed", Staleness(o))
  /\ UNCHANGED <<mode, imageSrc, selectedCaption, topText, bottomText,
                 editPrompt, analysis, loadSeq, analysisSrc, render>>

\* The catch and finally blocks of a gateway handler.
Catch(o, message, fallback) ==
  /\ Finish(o)
  /\ error' = Some(OrElse(message, fallback))
  /\ isLoading' = FALSE
  /\ ev' = Event(o.kind \o "Failed", Staleness(o))
  /\ UNCHANGED <<mode, imageSrc, captions, selectedCaption, topText,
                 bottomText, editPrompt, analysis, loadSeq, captionsSrc,
                 analysisSrc, render>>

\* Where a stored gateway result came from: the load count when its request
\* was issued and when its response was stored.
Provenance(o) == Some([issued |-> o.seq, stored |-> loadSeq])

\* The body of handleMagicCaption, whatever the view shows.
handleMagicCaptionCall ==
  /\ CanStart
  /\ IF imageSrc = Null THEN Return("caption") ELSE Issue("caption", EmptyStr)

\* A click on "Generate Captions".
handleMagicCaption ==
  /\ WorkspaceShown /\ mode = "CAPTION"
  /\ ButtonEnabled(isLoading, FALSE)
  /\ handleMagicCaptionCall

MagicCaptionResolved(o, suggestions) ==
  /\ o \in PendingOps("caption")
  /\ Finish(o)
  /\ captions' = suggestions
  /\ captionsSrc' = Provenance(o)
  /\ isLoading' = FALSE
  /\ ev' = Event("captionDone", Staleness(o))
  /\ UNCHANGED <<mode, imageSrc, error, selectedCaption, topText, bottomText,
                 editPrompt, analysis, loadSeq, analysisSrc, render>>

MagicCaptionRejected(o, message) ==
  /\ o \in PendingOps("caption")
  /\ Catch(o, message, "Failed to generate captions")

\* handleEditImage without the "!editPrompt" half of its guard.
handleEditImageCall_AnyPrompt ==
  /\ CanStart
  /\ IF imageSrc = Null THEN Return("edit") ELSE Issue("edit", editPrompt)

\* The body of handleEditImage, whatever the view shows.
handleEditImageCall ==
  /\ CanStart
  /\ IF imageSrc = Null \/ editPrompt = EmptyStr
       THEN Return("edit")
       ELSE Issue("edit", editPrompt)

\* A click on "Apply Edits".
handleEditImage ==
  /\ WorkspaceShown /\ mode = "EDIT"
  /\ ButtonEnabled(isLoading, Trim(editPrompt) = EmptyStr)
  /\ handleEditImageCall

\* handleEditImage with a staleness check: the result of an edit issued for
\* an image that is no longer the current one is discarded.
EditImageResolved_DropsStale(o, newImageBase64) ==
  /\ o \in PendingOps("edit")
  /\ Finish(o)
  /\ imageSrc' = IF Staleness(o) = "fresh" THEN Some(newImageBase64)
                                           ELSE imageSrc
  /\ editPrompt' = IF Staleness(o) = "fresh" THEN EmptyStr ELSE editPrompt
  /\ isLoading' = FALSE
  /\ ev' = Event("editDone", Staleness(o))
  /\ UNCHANGED <<mode, error, captions, selectedCaption, topText, bottomText,
                 analysis, loadSeq, captionsSrc, analysisSrc, render>>

\* handleEditImage ending like a load: the new image followed by resetState().
EditImageResolved_Resets(o, newImageBase64) ==
  /\ o \in PendingOps("edit")
  /\ Finish(o)
  /\ imageSrc' = Some(newImageBase64)
  /\ isLoading' = FALSE
  /\ resetState
  /\ ev' = Event("editDone", Staleness(o))
  /\ UNCHANGED <<mode, loadSeq, render>>

EditImageResolved(o, newImageBase64) ==
  /\ o \in PendingOps("edit")
  /\ Finish(o)
  /\ imageSrc' = Some(newImageBase64)
  /\ editPrompt' = EmptyStr
  /\ isLoading' = FALSE
  /\ ev' = Event("editDone", Staleness(o))
  /\ UNCHANGED <<mode, error, captions, selectedCaption, topText, bottomText,
                 analysis, loadSeq, captionsSrc, analysisSrc, render>>

EditImageRejected(o, message) ==
  /\ o \in PendingOps("edit")
  /\ Catch(o, message, "Failed to edit image")

\* The body of handleAnalyzeImage, whatever the view shows.
handleAnalyzeImageCall ==
  /\ CanStart
  /\ IF imageSrc = Null THEN Return("analyze") ELSE Issue("analyze", EmptyStr)

\* A click on "Analyze Image".
handleAnalyzeImage ==
  /\ WorkspaceShown /\ mode = "ANALYZE"
  /\ ButtonEnabled(isLoading, FALSE)
  /\ handleAnalyzeImageCall

AnalyzeImageResolved(o, result) ==
  /\ o \in PendingOps("analyze")
  /\ Finish(o)
  /\ analysis' = Some(result)
  /\ analysisSrc' = Provenance(o)
  /\ isLoading' = FALSE
  /\ ev' = Event("analyzeDone", Staleness(o))
  /\ UNCHANGED <<mode, imageSrc, error, captions, selectedCaption, topText,
                 bottomText, editPrompt, loadSeq, captionsSrc, render>>

AnalyzeImageRejected(o, message) ==
  /\ o \in PendingOps("analyze")
  /\ Catch(o, message, "Failed to analyze image")

----------------------------------------------------------------------------
(* Controls of the workspace *)

\* renderTabs: the three mode buttons.
setMode(m) ==
  /\ WorkspaceShown
  /\ mode' = m
  /\ ev' = Event("setMode", "fresh")
  /\ UNCHANGED <<imageSrc, isLoading, error, captions, selectedCaption,
                 topText, bottomText, editPrompt, analysis, pending,
                 nStarted, loadSeq,
                 captionsSrc, analysisSrc, render>>

\* The suggestion onClick with the two manual-text resets left out.
selectSuggestion_KeepsManualText(idx) ==
  /\ WorkspaceShown /\ mode = "CAPTION"
  /\ idx \in 1..Len(captions)
  /\ selectedCaption' = captions[idx].text
  /\ ev' = Event("selectSuggestion", "fresh")
  /\ UNCHANGED <<mode, imageSrc, isLoading, error, captions, topText,
                 bottomText, editPrompt, analysis, pending, nStarted, loadSeq,
                 captionsSrc, analysisSrc, render>>

\* The suggestion click storing the text with an exclamation mark added.
selectSuggestion_Decorated(idx) ==
  /\ WorkspaceShown /\ mode = "CAPTION"
  /\ idx \in 1..Len(captions)
  /\ selectedCaption' = Append(captions[idx].text, "!")
  /\ topText' = EmptyStr
  /\ bottomText' = EmptyStr
  /\ ev' = Event("selectSuggestion", "fresh")
  /\ UNCHANGED <<mode, imageSrc, isLoading, error, captions, editPrompt,
                 analysis, pending, nStarted, loadSeq, captionsSrc,
                 analysisSrc, render>>

\* onClick of the idx-th suggestion button.
selectSuggestion(idx) ==
  /\ WorkspaceShown /\ mode = "CAPTION"
  /\ idx \in 1..Len(captions)
  /\ selectedCaption' = captions[idx].text
  /\ topText' = EmptyStr
  /\ bottomText' = EmptyStr
  /\ ev' = Event("selectSuggestion", "fresh")
  /\ UNCHANGED <<mode, imageSrc, isLoading, error, captions, editPrompt,
                 analysis, pending, nStarted, loadSeq, captionsSrc,
                 analysisSrc, render>>

\* onChange of the Top Text input.
changeTopText(value) ==
  /\ WorkspaceShown /\ mode = "CAPTION"
  /\ value # topText
  /\ topText' = value
  /\ selectedCaption' = EmptyStr
  /\ ev' = Event("changeTopText", "fresh")
  /\ UNCHANGED <<mode, imageSrc, isLoading, error, captions, bottomText,
                 editPrompt, analysis, pending, nStarted, loadSeq, captionsSrc,
                 analysisSrc, render>>

\* onChange of the Bottom Text input.
changeBottomText(value) ==
  /\ WorkspaceShown /\ mode = "CAPTION"
  /\ value # bottomText
  /\ bottomText' = value
  /\ selectedCaption' = EmptyStr
  /\ ev' = Event("changeBottomText", "fresh")
  /\ UNCHANGED <<mode, imageSrc, isLoading, error, captions, topText,
                 editPrompt, analysis, pending, nStarted, loadSeq, captionsSrc,
                 analysisSrc, render>>

\* onChange of the Instructions textarea.
changeEditPrompt(value) ==
  /\ WorkspaceShown /\ mode = "EDIT"
  /\ value # editPrompt
  /\ editPrompt' = value
  /\ ev' = Event("changeEditPrompt", "fresh")
  /\ UNCHANGED <<mode, imageSrc, isLoading, error, captions, selectedCaption,
                 topText, bottomText, analysis, pending, nStarted, loadSeq,
                 captionsSrc,
                 analysisSrc, render>>

----------------------------------------------------------------------------
(* The session's next-state relation *)

Next ==
  \/ \E f \in Files : handleFileUpload(f)
  \/ \E o \in BagToSet(pending) : FileReaderOnload(o)
  \/ \E o \in BagToSet(pending) : FileReaderOnerror(o)
  \/ \E i \in 1..Len(TEMPLATES) : selectTemplate(TEMPLATES[i])
  \/ \E o \in BagToSet(pending) : TemplateFetchResolved(o)
  \/ \E o \in BagToSet(pending), b \in Blobs : TemplateBlobResolved(o, b)
  \/ \E o \in BagToSet(pending) : TemplateFetchFailed(o)
  \/ \E o \in BagToSet(pending), ok \in BOOLEAN : TemplateReaderOnloadend(o, ok)
  \/ startOver
  \/ handleMagicCaption
  \/ \E o \in BagToSet(pending), r \in CaptionResponses :
       MagicCaptionResolved(o, r)
  \/ \E o \in BagToSet(pending), m \in ErrMessages : MagicCaptionRejected(o, m)
  \/ handleEditImage
  \/ \E o \in BagToSet(pending), r \in EditResults : EditImageResolved(o, r)
  \/ \E o \in BagToSet(pending), m \in ErrMessages : EditImageRejected(o, m)
  \/ handleAnalyzeImage
  \/ \E o \in BagToSet(pending), r \in AnalysisResponses :
       AnalyzeImageResolved(o, r)
  \/ \E o \in BagToSet(pending), m \in ErrMessages : AnalyzeImageRejected(o, m)
  \/ \E m \in AppMode : setMode(m)
  \/ \E i \in 1..Len(captions) : selectSuggestion(i)
  \/ \E v \in TopTexts : changeTopText(v)
  \/ \E v \in BottomTexts : changeBottomText(v)
  \/ \E v \in EditPrompts : changeEditPrompt(v)

Spec == Init /\ [][Next]_vars

\* The application with the three gateway handlers also invoked directly, in
\* any state: their own guards are then the only ones in force.
NextDirect ==
  \/ Next
  \/ handleMagicCaptionCall
  \/ handleEditImageCall
  \/ handleAnalyzeImageCall

SpecDirect == Init /\ [][NextDirect]_vars

----------------------------------------------------------------------------
(* Drawing to the canvas: the img.onload callback of the render effect *)

maxDim == 600

\* Truncation in place of Math.round.
Round_Truncates(a, b) == a \div b

\* Math.round(a / b) for integers a >= 0, b > 0: the nearest integer, a
\* tie going up.
Round(a, b) == (2 * a + b) \div (2 * b)

\* The fit without its "width > maxDim || height > maxDim" guard: every
\* image is stretched or shrunk to the viewport bound.
ScaledSize_AlwaysFits(w, h) ==
  IF w > h
    THEN <<maxDim, Round(h * maxDim, w)>>
    ELSE <<Round(w * maxDim, h), maxDim>>

\* The aspect-ratio fit: <<width, height>> of the canvas for a decoded image
\* of native size w x h.
ScaledSize(w, h) ==
  IF w > maxDim \/ h > maxDim
    THEN IF w > h
           THEN <<maxDim, Round(h * maxDim, w)>>
           ELSE <<Round(w * maxDim, h), maxDim>>
    ELSE <<w, h>>

\* String.prototype.toUpperCase on the letters the model uses.
UpperChar(c) ==
  CASE c = "a" -> "A" [] c = "b" -> "B" [] c = "h" -> "H" [] c = "i" -> "I"
    [] c = "t" -> "T" [] OTHER -> c
toUpperCase(s) == [i \in 1..Len(s) |-> UpperChar(s[i])]

\* String.prototype.split(' '): the pieces between the spaces, empty ones
\* included.
RECURSIVE split(_)
split(s) ==
  IF \E i \in 1..Len(s) : s[i] = " "
    THEN LET i == CHOOSE k \in 1..Len(s) :
                    s[k] = " " /\ \A j \in 1..(k - 1) : s[j] # " "
         IN <<SubSeq(s, 1, i - 1)>> \o split(SubSeq(s, i + 1, Len(s)))
    ELSE <<s>>

\* The advance of one character of a caption in font units: every glyph
\* has its own.
Advance(c) ==
  CASE c = " " -> metrics.space
    [] c = "a" -> metrics.a
    [] c = "b" -> metrics.b
    [] c = "A" -> metrics.A
    [] c = "B" -> metrics.B
    [] c = "C" -> metrics.C
    [] c = "D" -> metrics.D
    [] c = "E" -> metrics.E

\* ctx.measureText(s).width under the font "900 <fontSize>px Impact,
\* sans-serif", in pixels times UnitsPerEm: the advances of the characters
\* added up, each proportional to the font size.
RECURSIVE measureText(_, _)
measureText(s, fontSize) ==
  IF s = <<>> THEN 0
  ELSE fontSize * Advance(Head(s)) + measureText(Tail(s), fontSize)

\* "testWidth > width - 40" for the text s measured on a surface of that
\* width.
Overflows(s, width) ==
  measureText(s, width \div 10) > UnitsPerEm * (width - 40)

fontSizeOf(width)     == width \div 10       \* Math.floor(width / 10)
lineWidthOf(fontSize) == fontSize \div 8     \* Math.floor(fontSize / 8)

\* ctx.lineWidth after "ctx.lineWidth = Math.floor(fontSize / 8)": the
\* canvas ignores an assignment of 0, and the context, reset by the
\* assignment to canvas.width, then keeps its default line width 1.
ctxLineWidth(fontSize) ==
  IF lineWidthOf(fontSize) > 0 THEN lineWidthOf(fontSize) ELSE 1

\* One strokeText or fillText call with the context state it is made under.
\* Coordinates are kept as integers: x2 is twice x, y10 is ten times y.
TextCall(fn, text, x2, y10, baseline, fontSize) ==
  [fn |-> fn, text |-> text, x2 |-> x2, y10 |-> y10, baseline |-> baseline,
   fontSize |-> fontSize, lineWidth |-> ctxLineWidth(fontSize)]

\* strokeText then fillText of one string at one anchor.
StrokeFill(text, x2, y10, baseline, fontSize) ==
  <<TextCall("strokeText", text, x2, y10, baseline, fontSize),
    TextCall("fillText", text, x2, y10, baseline, fontSize)>>

\* The manual branch without its "if (bottomText)" guard.
ManualCalls_AlwaysBottom(d, width, height, fontSize) ==
  (IF d.topText # EmptyStr
     THEN StrokeFill(toUpperCase(d.topText), width, 100, "top", fontSize)
     ELSE <<>>)
  \o StrokeFill(toUpperCase(d.bottomText), width, 10 * (height - 10), "bottom",
                fontSize)

\* The manual branch: top at (width / 2, 10), bottom at
\* (width / 2, height - 10), each only when it is non-empty.
ManualCalls(d, width, height, fontSize) ==
  (IF d.topText # EmptyStr
     THEN StrokeFill(toUpperCase(d.topText), width, 100, "top", fontSize)
     ELSE <<>>)
  \o
  (IF d.bottomText # EmptyStr
     THEN StrokeFill(toUpperCase(d.bottomText), width, 10 * (height - 10),
                     "bottom", fontSize)
     ELSE <<>>)

\* The wrap loop measuring the line built so far instead of the line with
\* the next word added.
RECURSIVE WrapFrom_MeasuresLine(_, _, _, _, _)
WrapFrom_MeasuresLine(words, n, line, lineArray, width) ==
  IF n > Len(words) THEN Append(lineArray, line)
  ELSE LET testLine == line \o words[n] \o <<" ">>
       IN IF Overflows(line, width) /\ n > 1
            THEN WrapFrom_MeasuresLine(words, n + 1, words[n] \o <<" ">>,
                                       Append(lineArray, line), width)
            ELSE WrapFrom_MeasuresLine(words, n + 1, testLine, lineArray, width)

\* The for loop of the magic-caption branch from 0-based index n - 1 on.
RECURSIVE WrapFrom(_, _, _, _, _)
WrapFrom(words, n, line, lineArray, width) ==
  IF n > Len(words) THEN Append(lineArray, line)
  ELSE LET testLine == line \o words[n] \o <<" ">>
       IN IF Overflows(testLine, width) /\ n > 1
            THEN WrapFrom(words, n + 1, words[n] \o <<" ">>,
                          Append(lineArray, line), width)
            ELSE WrapFrom(words, n + 1, testLine, lineArray, width)

\* lineArray of the magic-caption branch.
WrapLines(caption, width) == WrapFrom(split(caption), 1, <<>>, <<>>, width)

\* lineArray.forEach: the lines drawn from
\* y = height - 20 - (lines - 1) * fontSize downwards, fontSize * 1.1 apart.
LineCalls(lineArray, width, height, fontSize) ==
  LET y10 == 10 * (height - 20 - (Len(lineArray) - 1) * fontSize)
      Draw(i) == StrokeFill(toUpperCase(lineArray[i]), width,
                            y10 + 11 * (i - 1) * fontSize, "bottom", fontSize)
  IN [k \in 1..(2 * Len(lineArray)) |-> Draw((k + 1) \div 2)[2 - (k % 2)]]

\* The magic-caption branch: the caption wrapped and its lines drawn.
MagicCalls(d, width, height, fontSize) ==
  LineCalls(WrapLines(d.selectedCaption, width), width, height, fontSize)

\* The "Draw Text" part without its "mode === AppMode.CAPTION" test.
TextCalls_AnyMode(d, width, height) ==
  LET displayText ==
        IF d.selectedCaption # EmptyStr THEN d.selectedCaption
        ELSE d.topText \o (IF d.bottomText # EmptyStr
                           THEN <<"\n">> \o d.bottomText ELSE <<>>)
  IN IF displayText # EmptyStr
       THEN IF d.topText # EmptyStr \/ d.bottomText # EmptyStr
              THEN ManualCalls(d, width, height, fontSizeOf(width))
            ELSE IF d.selectedCaption # EmptyStr
              THEN MagicCalls(d, width, height, fontSizeOf(width))
            ELSE <<>>
       ELSE <<>>

\* The "Draw Text" part of img.onload.
TextCalls(d, width, height) ==
  IF d.mode = "CAPTION"
    THEN LET displayText ==
               IF d.selectedCaption # EmptyStr THEN d.selectedCaption
               ELSE d.topText \o (IF d.bottomText # EmptyStr
                                  THEN <<"\n">> \o d.bottomText ELSE <<>>)
         IN IF displayText # EmptyStr
              THEN IF d.topText # EmptyStr \/ d.bottomText # EmptyStr
                     THEN ManualCalls(d, width, height, fontSizeOf(width))
                   ELSE IF d.selectedCaption # EmptyStr
                     THEN MagicCalls(d, width, height, fontSizeOf(width))
                   ELSE <<>>
              ELSE <<>>
    ELSE <<>>

\* What a render pass started with the dependency values d leaves on the
\* canvas: the image, and on top of it the manual text, the selected caption
\* or nothing, as the "Draw Text" branches decide.
Composite(d) ==
  IF d.mode = "CAPTION"
    THEN IF d.topText # EmptyStr \/ d.bottomText # EmptyStr
           THEN Canvas(TRUE, d.imageSrc, EmptyStr, d.topText, d.bottomText)
           ELSE Canvas(TRUE, d.imageSrc, d.selectedCaption, EmptyStr, EmptyStr)
    ELSE Canvas(TRUE, d.imageSrc, EmptyStr, EmptyStr, EmptyStr)

\* img.onload of the render pass r: canvas.width and canvas.height are set
\* from the fit, the image is drawn and the text on top of it. The callback
\* is a closure of the effect run that created the image: it draws to the
\* canvas of that run, with the mode and the texts of that run. There is no
\* clean-up, so the pass may be one of an earlier commit, and its canvas may
\* be gone.
imgOnload(r) ==
  /\ r \in BagToSet(renders)
  /\ renders' = renders (-) SetToBag({r})
  /\ surfW' = ScaledSize(natW, natH)[1]
  /\ surfH' = ScaledSize(natW, natH)[2]
  /\ calls' = TextCalls(r.deps, ScaledSize(natW, natH)[1],
                        ScaledSize(natW, natH)[2])
  /\ rpc' = "drawn"
  /\ surface' = IF surface.mounted /\ r.canvas = canvasGen
                  THEN Composite(r.deps) ELSE surface
  /\ UNCHANGED <<session, history, natW, natH, metrics, loop, lastDeps,
                 canvasGen>>

\* The session right after a file has been loaded: every slot but the
\* image is at its default.
FileLoaded ==
  /\ imageSrc = Some(DataUrl("fileA"))
  /\ isLoading = FALSE /\ error = Null
  /\ editPrompt = EmptyStr /\ analysis = Null /\ analysisSrc = Null
  /\ pending = EmptyBag /\ loadSeq = 1
  /\ ev = Event("init", "fresh")

\* ... and the effect has run for it: the canvas is mounted and blank, the
\* first render pass is waiting for its image.
ImageLoaded ==
  /\ FileLoaded
  /\ lastDeps = Deps /\ canvasGen = 1 /\ surface = BlankCanvas
  /\ renders = SetToBag({[deps |-> Deps, canvas |-> 1]})

\* The render pass on its own, for every native size within the bound.
NativeDims == 1..MaxNative

InitRender ==
  /\ mode = "CAPTION" /\ captions = <<>> /\ captionsSrc = Null /\ nStarted = 1
  /\ selectedCaption = EmptyStr /\ topText = EmptyStr /\ bottomText = EmptyStr
  /\ natW \in NativeDims
  /\ natH \in NativeDims
  /\ surfW = 0 /\ surfH = 0
  /\ calls = <<>> /\ metrics = ImpactMetrics /\ LoopIdle
  /\ rpc = "decoding"
  /\ ImageLoaded

NextRender == \E r \in BagToSet(renders) : imgOnload(r)

SpecRender == InitRender /\ [][NextRender]_vars

\* The text layout of the render pass on its own: a few native sizes, every
\* caption within the bound over a small alphabet, a few manual texts, every
\* workspace mode and a few glyph advances.
RECURSIVE StringsUpTo(_)
StringsUpTo(n) ==
  IF n = 0 THEN {<<>>}
  ELSE LET shorter == StringsUpTo(n - 1)
       IN shorter \cup {Append(s, c) : s \in shorter, c \in {"a", "b", " "}}

HELLO == <<"H", "E", "L", "L", "O">>
WORLD == <<"W", "O", "R", "L", "D">>
ABCDE == <<"A", " ", "B", " ", "C", " ", "D", " ", "E">>

LayoutWidths   == {45, 100, 800}
LayoutHeights  == {90, 400}
LayoutCaptions == (StringsUpTo(MaxCaption) \ {EmptyStr}) \cup {ABCDE}
LayoutTops     == {EmptyStr, <<"h", " ", "i">>, HELLO}
LayoutBottoms  == {EmptyStr, <<"b">>, WORLD}
FontMetrics    == {ImpactMetrics, CondensedMetrics, WideMetrics}

\* A caption state the handlers can leave: a selected suggestion with the
\* manual texts cleared, or manual texts with no suggestion selected; an
\* image of one of the layout sizes is decoding.
LayoutState ==
  /\ mode \in AppMode
  /\ \/ /\ selectedCaption \in LayoutCaptions
        /\ captions = <<[text |-> selectedCaption, category |-> "Funny"]>>
        /\ captionsSrc = Some([issued |-> 1, stored |-> 1]) /\ nStarted = 2
        /\ topText = EmptyStr /\ bottomText = EmptyStr
     \/ /\ selectedCaption = EmptyStr
        /\ captions = <<>> /\ captionsSrc = Null /\ nStarted = 1
        /\ topText \in LayoutTops /\ bottomText \in LayoutBottoms
  /\ natW \in LayoutWidths /\ natH \in LayoutHeights
  /\ metrics \in FontMetrics
  /\ surfW = 0 /\ surfH = 0 /\ calls = <<>> /\ LoopIdle
  /\ rpc = "decoding"

InitLayout ==
  /\ LayoutState
  /\ ImageLoaded

NextLayout == \E r \in BagToSet(renders) : imgOnload(r)

SpecLayout == InitLayout /\ [][NextLayout]_vars

\* The render effect has run for the values the session holds now.
EffectsFlushed == lastDeps = Deps

\* The render effect, run after a commit that changed a dependency. With no
\* image it returns at once (and the canvas is not mounted); otherwise it
\* starts decoding the image, and the drawing waits for img.onload.
RunEffect ==
  /\ ~EffectsFlushed
  /\ lastDeps' = Deps
  /\ IF imageSrc = Null
       THEN surface' = NoCanvas /\ UNCHANGED <<canvasGen, renders, rpc>>
       ELSE /\ canvasGen' = IF lastDeps.imageSrc = Null THEN canvasGen + 1
                                                        ELSE canvasGen
            /\ surface' = IF lastDeps.imageSrc = Null THEN BlankCanvas
                                                      ELSE surface
            /\ renders' = renders (+) SetToBag({[deps |-> Deps,
                                                  canvas |-> canvasGen']})
            /\ rpc' = "decoding"
  /\ UNCHANGED <<session, history, natW, natH, surfW, surfH, calls, metrics,
                 loop>>

\* The application together with its render effect: the effect runs right
\* after every commit that changed a dependency, the decode callbacks
\* whenever they are ready. At most MaxSurfaceOps operations are started.
NextSurface ==
  \/ /\ EffectsFlushed /\ BagCardinality(renders) < MaxRenders
     /\ Next /\ nStarted' <= MaxSurfaceOps
  \/ RunEffect
  \/ \E r \in BagToSet(renders) : imgOnload(r)

SpecSurface == Init /\ [][NextSurface]_vars

\* The wrap loop of the magic-caption branch unfolded, one action per
\* iteration: the img.onload of the first pass is running, it has set the
\* canvas size and drawn the image, and is about to enter the loop.
InitWrap ==
  /\ mode = "CAPTION"
  /\ selectedCaption \in LayoutCaptions
  /\ captions = <<[text |-> selectedCaption, category |-> "Funny"]>>
  /\ captionsSrc = Some([issued |-> 1, stored |-> 1]) /\ nStarted = 2
  /\ topText = EmptyStr /\ bottomText = EmptyStr
  /\ natW \in LayoutWidths /\ natH \in LayoutHeights
  /\ metrics \in FontMetrics
  /\ surfW = ScaledSize(natW, natH)[1] /\ surfH = ScaledSize(natW, natH)[2]
  /\ calls = <<>> /\ LoopIdle
  /\ rpc = "wrapping"
  /\ FileLoaded
  /\ lastDeps = Deps /\ canvasGen = 1 /\ renders = EmptyBag
  /\ surface = Canvas(TRUE, imageSrc, EmptyStr, EmptyStr, EmptyStr)

\* One iteration that loses the word it cannot fit: the new line starts empty.
WrapStep_DropsWord ==
  /\ rpc = "wrapping"
  /\ loopN < Len(split(selectedCaption))
  /\ LET word == split(selectedCaption)[loopN + 1]
         testLine == loopLine \o word \o <<" ">>
     IN IF Overflows(testLine, surfW) /\ loopN > 0
          THEN loopLines' = Append(loopLines, loopLine) /\ loopLine' = <<>>
          ELSE loopLine' = testLine /\ UNCHANGED loopLines
  /\ loopN' = loopN + 1
  /\ UNCHANGED <<session, history, natW, natH, surfW, surfH, rpc, calls,
                 metrics, effect>>

\* One iteration of "for (let n = 0; n < words.length; n++)".
WrapStep ==
  /\ rpc = "wrapping"
  /\ loopN < Len(split(selectedCaption))
  /\ LET word == split(selectedCaption)[loopN + 1]
         testLine == loopLine \o word \o <<" ">>
     IN IF Overflows(testLine, surfW) /\ loopN > 0
          THEN /\ loopLines' = Append(loopLines, loopLine)
               /\ loopLine' = word \o <<" ">>
          ELSE loopLine' = testLine /\ UNCHANGED loopLines
  /\ loopN' = loopN + 1
  /\ UNCHANGED <<session, history, natW, natH, surfW, surfH, rpc, calls,
                 metrics, effect>>

\* The loop exit and the lineArray.push(line) after it.
WrapExit ==
  /\ rpc = "wrapping"
  /\ loopN >= Len(split(selectedCaption))
  /\ loopLines' = Append(loopLines, loopLine)
  /\ rpc' = "wrapped"
  /\ UNCHANGED <<session, history, natW, natH, surfW, surfH, calls, metrics,
                 loopN, loopLine, effect>>

\* The lines drawn after the loop: lineArray.forEach with strokeText and
\* fillText, which ends the pass.
WrapDraw ==
  /\ rpc = "wrapped"
  /\ calls' = LineCalls(loopLines, surfW, surfH, fontSizeOf(surfW))
  /\ surface' = Composite(lastDeps)
  /\ rpc' = "drawn"
  /\ UNCHANGED <<session, history, natW, natH, surfW, surfH, metrics, loop,
                 lastDeps, canvasGen, renders>>

NextWrap == WrapStep \/ WrapExit \/ WrapDraw

\* The loop is synchronous code: once entered it keeps running.
SpecWrap == InitWrap /\ [][NextWrap]_vars /\ WF_vars(NextWrap)

\* The text layout with the tabs. The first pass is waiting for its image;
\* a click on a tab commits the new mode, the effect starts another pass for
\* it, and the waiting passes draw in any order.
NextTabs ==
  \/ /\ EffectsFlushed /\ BagCardinality(renders) < MaxRenders
     /\ \E m \in AppMode : setMode(m)
  \/ RunEffect
  \/ \E r \in BagToSet(renders) : imgOnload(r)

SpecTabs == InitLayout /\ [][NextTabs]_vars

----------------------------------------------------------------------------
(* Properties *)

SuccessKinds == {"captionDone", "editDone", "analyzeDone", "fileLoaded",
                 "templateLoaded"}
FailureKinds == {"captionFailed", "editFailed", "analyzeFailed",
                 "templateFetchFailed"}
\* The steps in which a gateway call or a template load finishes.
FinishKinds  == {"captionDone", "editDone", "analyzeDone", "templateLoaded",
                 "templateReadFailed"} \cup FailureKinds

\* A gateway call or a template load is in flight.
BusyPending ==
  \E o \in BagToSet(pending) :
    o.kind \in {"caption", "edit", "analyze", "templateFetch", "templateBlob",
                "templateRead"}

\* C1: the selected magic caption and the manual top/bottom text are never
\* non-empty together; right after a suggestion is selected top and bottom
\* are empty, and right after top or bottom is edited the selected caption
\* is empty.
C1_MutualExclusion ==
  /\ ~(/\ selectedCaption # EmptyStr
       /\ (topText # EmptyStr \/ bottomText # EmptyStr))
  /\ ev.kind = "selectSuggestion" =>
       topText = EmptyStr /\ bottomText = EmptyStr
  /\ ev.kind \in {"changeTopText", "changeBottomText"} =>
       selectedCaption = EmptyStr

\* A suggestion was selected while top text was set.
C1_Witness ==
  /\ ev.kind = "selectSuggestion"
  /\ "topText" \in ev.held
  /\ selectedCaption # EmptyStr

\* C2: right after a successful load (file read or template) the
\* suggestions, the selected caption, top and bottom text and the edit
\* instruction are empty and the analysis result is null.
C2_LoadResets ==
  ev.kind \in {"fileLoaded", "templateLoaded"} =>
    /\ captions = <<>>
    /\ selectedCaption = EmptyStr
    /\ topText = EmptyStr
    /\ bottomText = EmptyStr
    /\ editPrompt = EmptyStr
    /\ analysis = Null

\* A load completed in a session that held suggestions and an instruction.
C2_Witness ==
  /\ ev.kind \in {"fileLoaded", "templateLoaded"}
  /\ {"captions", "editPrompt"} \subseteq ev.held

\* C3 as claimed: a stored suggestions list or analysis result always comes
\* from a request issued for the image loaded most recently.
C3_NoCarryover ==
  /\ captions # <<>> => captionsSrc # Null /\ captionsSrc[1].issued = loadSeq
  /\ analysis # Null => analysisSrc # Null /\ analysisSrc[1].issued = loadSeq

\* C3 as amended: a stored suggestions list or analysis result was stored
\* after the most recent load completed (every load empties both), by a
\* request issued no later than that.
C3_StoredSinceLastLoad ==
  /\ captions # <<>> =>
       /\ captionsSrc # Null
       /\ captionsSrc[1].stored = loadSeq
       /\ captionsSrc[1].issued <= captionsSrc[1].stored
  /\ analysis # Null =>
       /\ analysisSrc # Null
       /\ analysisSrc[1].stored = loadSeq
       /\ analysisSrc[1].issued <= analysisSrc[1].stored

\* The session holds suggestions requested for an earlier image.
C3_Witness ==
  /\ captions # <<>>
  /\ captionsSrc # Null
  /\ captionsSrc[1].issued < loadSeq
  /\ imageSrc # Null

\* C4 as claimed: right after any operation completes successfully the
\* error message is null.
C4_SuccessClearsError ==
  ev.kind \in SuccessKinds => error = Null

\* C5: every step that finishes a gateway call or a template load leaves
\* the busy flag false, and the flag is false whenever none is pending.
C5_BusyCleared ==
  /\ ev.kind \in FinishKinds => ~isLoading
  /\ ~BusyPending => ~isLoading

\* A gateway call failed and nothing is pending any more.
C5_Witness ==
  /\ ev.kind \in {"captionFailed", "editFailed", "analyzeFailed"}
  /\ pending = EmptyBag

\* C6: the completion step of a failed caption, edit or analysis request or
\* template fetch leaves the image, the suggestions, the selected caption,
\* top and bottom text, the edit instruction and the analysis unchanged.
C6_FailureFrame ==
  [][ev'.kind \in FailureKinds =>
       UNCHANGED <<imageSrc, captions, selectedCaption, topText, bottomText,
                   editPrompt, analysis>>]_vars

\* A gateway call failed in a session that holds suggestions.
C6_Witness ==
  /\ ev.kind \in FailureKinds
  /\ captions # <<>>
  /\ imageSrc # Null

\* C7: a gateway response that completes after the image was replaced or
\* cleared is written to its slot all the same: the edit result becomes the
\* image (and the instruction is emptied), the suggestions and the analysis
\* are stored.
C7_LateResponsesApplied ==
  ev.stale # "fresh" =>
    /\ ev.kind = "editDone" =>
         /\ imageSrc \in {Some(r) : r \in EditResults}
         /\ editPrompt = EmptyStr
    /\ ev.kind = "captionDone" =>
         /\ captions \in CaptionResponses
         /\ captionsSrc # Null /\ captionsSrc[1].stored = loadSeq
    /\ ev.kind = "analyzeDone" =>
         /\ analysis \in {Some(r) : r \in AnalysisResponses}
         /\ analysisSrc # Null /\ analysisSrc[1].stored = loadSeq

\* An edit issued for an image that was replaced since has completed.
C7_Witness ==
  /\ ev.kind = "editDone"
  /\ ev.stale = "replaced"
  /\ imageSrc # Null

\* C8 as claimed: a file read or template fetch that fails ends with a
\* non-null error message.
C8_LoadFailureReported ==
  ev.kind \in {"fileReadFailed", "templateFetchFailed"} => error # Null

\* C9: when a template fetch fails in a session with no image, the error is
\* the load-failure message, the image is still null and the busy flag is
\* false.
C9_TemplateFetchFailure ==
  [][(ev'.kind = "templateFetchFailed" /\ imageSrc = Null) =>
       /\ error' = Some("Failed to load template")
       /\ imageSrc' = Null
       /\ ~isLoading']_vars

\* A template fetch has failed in a session with no image.
C9_Witness ==
  /\ ev.kind = "templateFetchFailed"
  /\ imageSrc = Null
  /\ error = Some("Failed to load template")

\* r is the integer nearest to a / b, a tie going up.
IsRounded(r, a, b) == 2 * r * b - b <= 2 * a /\ 2 * a < 2 * r * b + b

\* C10: an image with w >= h and w > 600 is drawn on a surface of width 600
\* and height round(h * 600 / w); one with h >= w and h > 600 on a surface
\* of height 600 and width round(w * 600 / h).
C10_Scaling ==
  rpc = "drawn" =>
    /\ (natW >= natH /\ natW > 600) =>
         surfW = 600 /\ IsRounded(surfH, natH * 600, natW)
    /\ (natH >= natW /\ natH > 600) =>
         surfH = 600 /\ IsRounded(surfW, natW * 600, natH)

\* A wide image whose scaled height falls exactly between two integers.
C10_Witness ==
  /\ rpc = "drawn"
  /\ natW > 600 /\ natW > natH
  /\ 2 * ((natH * 600) % natW) = natW

Max(a, b) == IF a >= b THEN a ELSE b

\* C11: the surface is never larger than the native image nor than 600 in
\* either dimension; an image within 600 x 600 keeps its native size, and any
\* other image has its larger surface dimension equal to 600.
C11_NeverScaledUp ==
  rpc = "drawn" =>
    /\ surfW <= natW
    /\ surfH <= natH
    /\ Max(surfW, surfH) <= 600
    /\ (natW <= 600 /\ natH <= 600) => (surfW = natW /\ surfH = natH)
    /\ (natW > 600 \/ natH > 600) => Max(surfW, surfH) = 600

\* A tall image was shrunk in both dimensions.
C11_Witness ==
  /\ rpc = "drawn"
  /\ natH > 600 /\ natW < natH
  /\ surfH = 600 /\ surfW < natW /\ surfW > 0

\* The render pass took the magic-caption branch.
MagicDrawn ==
  /\ rpc = "drawn" /\ mode = "CAPTION"
  /\ selectedCaption # EmptyStr /\ topText = EmptyStr /\ bottomText = EmptyStr

\* The words of a wrapped line: each is followed by exactly one space.
WordsIn(line) == Cardinality({i \in 1..Len(line) : line[i] = " "})

\* words[a..b], each followed by a space.
RECURSIVE JoinWords(_, _, _)
JoinWords(words, a, b) ==
  IF a > b THEN <<>> ELSE words[a] \o <<" ">> \o JoinWords(words, a + 1, b)

\* C12: every line the wrap produces measures at most the surface width
\* minus 40, or consists of a single word; so when no k + 1 consecutive
\* words fit, no line holds more than k words.
C12_WrapBound ==
  MagicDrawn =>
    LET lineArray == WrapLines(selectedCaption, surfW)
        words == split(selectedCaption)
    IN /\ Len(calls) = 2 * Len(lineArray)
       /\ \A i \in 1..Len(lineArray) :
            /\ calls[2 * i].text = toUpperCase(lineArray[i])
            /\ \/ measureText(lineArray[i], surfW \div 10)
                    <= UnitsPerEm * (surfW - 40)
               \/ WordsIn(lineArray[i]) = 1
       /\ \A k \in 1..Len(words) :
            (\A a \in 1..(Len(words) - k) :
               measureText(JoinWords(words, a, a + k), surfW \div 10)
                 > UnitsPerEm * (surfW - 40))
            => \A i \in 1..Len(lineArray) : WordsIn(lineArray[i]) <= k

C12_Witness ==
  /\ MagicDrawn /\ selectedCaption = ABCDE
  /\ Len(calls) = 6
  /\ WordsIn(WrapLines(selectedCaption, surfW)[1]) = 2
  /\ measureText(<<"A", " ", "B", " ", "C", " ">>, surfW \div 10)
       > UnitsPerEm * (surfW - 40)

\* C13: a caption wrapped into n lines is drawn with its last line's bottom
\* baseline at height - 20 and every line above fontSize * 1.1 higher than
\* the one below: line i (0-based) at height - 20 - (n - 1 - i) * fontSize * 1.1,
\* so no baseline lies below height - 20.
C13_LineStacking ==
  MagicDrawn =>
    LET n == Len(calls) \div 2
    IN \A i \in 0..(n - 1) :
         /\ calls[2 * i + 2].fn = "fillText"
         /\ calls[2 * i + 2].baseline = "bottom"
         /\ calls[2 * i + 2].y10
              = 10 * (surfH - 20) - 11 * (n - 1 - i) * fontSizeOf(surfW)
         /\ calls[2 * i + 2].y10 <= 10 * (surfH - 20)

\* The render pass took the manual branch.
ManualDrawn ==
  /\ rpc = "drawn" /\ mode = "CAPTION"
  /\ (topText # EmptyStr \/ bottomText # EmptyStr)

\* A slot's calls are one strokeText then one fillText of the upper-cased
\* text at the anchor, or none when the slot is empty.
SlotDrawnOnce(slotCalls, text, y10) ==
  IF text = EmptyStr THEN slotCalls = <<>>
  ELSE /\ Len(slotCalls) = 2
       /\ slotCalls[1].fn = "strokeText" /\ slotCalls[2].fn = "fillText"
       /\ \A k \in 1..2 :
            /\ slotCalls[k].text = toUpperCase(text)
            /\ slotCalls[k].x2 = surfW
            /\ slotCalls[k].y10 = y10

\* C14: in a render of manual text, a non-empty top text is drawn exactly
\* once (stroke then fill), upper-cased, at (width / 2, 10) with top
\* baseline, a non-empty bottom text exactly once at (width / 2, height - 10)
\* with bottom baseline, and an empty slot is not drawn at all.
C14_ManualSlots ==
  ManualDrawn =>
    LET AtTop(c) == c.baseline = "top"
        AtBottom(c) == c.baseline = "bottom"
    IN /\ Len(calls) = Len(SelectSeq(calls, AtTop)) + Len(SelectSeq(calls, AtBottom))
       /\ SlotDrawnOnce(SelectSeq(calls, AtTop), topText, 10 * 10)
       /\ SlotDrawnOnce(SelectSeq(calls, AtBottom), bottomText, 10 * (surfH - 10))

C14_Witness ==
  /\ ManualDrawn /\ topText = <<"h", " ", "i">> /\ bottomText = EmptyStr
  /\ Len(calls) = 2 /\ calls[2].text = <<"H", " ", "I">>

\* C15: every text call is made with font size floor(surface width / 10)
\* and stroke width floor(font size / 8); an 800 x 400 image with top text
\* HELLO and bottom text WORLD gives a 600 x 300 surface and font size 60.
C15_FontMetrics ==
  rpc = "drawn" =>
    /\ \A k \in 1..Len(calls) :
         /\ 10 * calls[k].fontSize <= surfW
         /\ surfW < 10 * (calls[k].fontSize + 1)
         /\ 8 * calls[k].lineWidth <= calls[k].fontSize
         /\ calls[k].fontSize < 8 * (calls[k].lineWidth + 1)
    /\ (natW = 800 /\ natH = 400 /\ mode = "CAPTION"
        /\ topText = HELLO /\ bottomText = WORLD)
       => /\ surfW = 600 /\ surfH = 300
          /\ Len(calls) = 4
          /\ \A k \in 1..4 : calls[k].fontSize = 60

IssuedKinds   == {"captionIssued", "editIssued", "analyzeIssued"}
ReturnedKinds == {"captionReturned", "editReturned", "analyzeReturned"}

\* C16: a gateway handler issues its request only with a non-null image
\* and, for an edit, a non-empty instruction; invoked otherwise it returns
\* at once and changes no state slot, the busy flag and the error message
\* included.
C16_GatewayPreconditions ==
  [][/\ ev'.kind \in IssuedKinds
          => /\ imageSrc # Null
             /\ ev'.kind = "editIssued" => editPrompt # EmptyStr
             /\ NumPending' = NumPending + 1
     /\ ev'.kind \in ReturnedKinds
          => /\ imageSrc = Null \/ (ev'.kind = "editReturned" /\ editPrompt = EmptyStr)
             /\ isLoading' = isLoading /\ error' = error
             /\ UNCHANGED <<session, pending>>
     /\ \A o \in BagToSet(pending') : o.kind = "edit" => o.prompt # EmptyStr
    ]_vars

C16_Witness ==
  /\ ev.kind = "editReturned" /\ imageSrc # Null /\ editPrompt = EmptyStr
  /\ isLoading /\ error = Null

\* C17: the step that completes an edit successfully sets the image to the
\* returned image and the edit instruction to empty, and leaves the
\* suggestions, the selected caption, the top and bottom text and the
\* analysis result as they were.
C17_EditFrame ==
  [][ev'.kind = "editDone" =>
       /\ \E r \in EditResults : imageSrc' = Some(r)
       /\ editPrompt' = EmptyStr
       /\ UNCHANGED <<captions, selectedCaption, topText, bottomText, analysis>>
    ]_vars

C17_Witness ==
  /\ ev.kind = "editDone"
  /\ imageSrc \in {Some(r) : r \in EditResults}
  /\ editPrompt = EmptyStr
  /\ captions # <<>> /\ selectedCaption # EmptyStr

\* C18: while a gateway call or a template load is pending the busy flag
\* is true.
C18_BusyTracksPending ==
  BusyPending => isLoading

\* The selected caption is the text of a suggestion of the list.
InSuggestions(caption, list) == \E i \in 1..Len(list) : list[i].text = caption

\* C20 as claimed: the selected caption is empty or the text of a
\* suggestion of the current list.
C20_SelectedIsCurrentSuggestion ==
  selectedCaption = EmptyStr \/ InSuggestions(selectedCaption, captions)

\* C20: the selected caption only changes by being emptied or by being set
\* to the text of a suggestion of the list shown at that moment, which that
\* step leaves as it is.
C20_SelectedWasSuggestion ==
  [][selectedCaption' # selectedCaption =>
       \/ selectedCaption' = EmptyStr
       \/ InSuggestions(selectedCaption', captions) /\ captions' = captions
    ]_vars

\* A later caption response has replaced the list the selection came from.
C20_Witness ==
  /\ ev.kind = "captionDone"
  /\ selectedCaption # EmptyStr
  /\ captions # <<>>
  /\ ~InSuggestions(selectedCaption, captions)

\* C19: whenever no render pass is waiting for its image, the canvas shows
\* the composition of the current image, caption state and mode.
C19_SurfaceConverges ==
  (EffectsFlushed /\ renders = EmptyBag /\ imageSrc # Null)
    => surface = Composite(Deps)

\* C21: a render pass started in EDIT or ANALYZE mode leaves the plain
\* scaled image whatever the caption slots hold, a pass started in CAPTION
\* mode draws text exactly when the selected caption, the top text or the
\* bottom text is non-empty, and a mode switch changes none of the slots.
C21_TextOnlyInCaptionMode ==
  [][/\ \A r \in BagToSet(renders) :
          renders' = renders (-) SetToBag({r}) =>
            /\ <<surfW', surfH'>> = ScaledSize(natW, natH)
            /\ r.deps.mode # "CAPTION" =>
                 /\ calls' = <<>>
                 /\ surface' = Canvas(TRUE, r.deps.imageSrc, EmptyStr,
                                      EmptyStr, EmptyStr)
            /\ r.deps.mode = "CAPTION" =>
                 (calls' # <<>> <=> (r.deps.selectedCaption # EmptyStr
                                     \/ r.deps.topText # EmptyStr
                                     \/ r.deps.bottomText # EmptyStr))
     /\ mode' # mode =>
          UNCHANGED <<selectedCaption, topText, bottomText, captions>>
    ]_vars

\* After a switch to EDIT every pass has drawn, the last of them one started
\* outside CAPTION mode: the canvas holds the plain image while both manual
\* texts are set.
C21_Witness ==
  /\ rpc = "drawn" /\ ev.kind = "setMode" /\ mode = "EDIT"
  /\ topText = HELLO /\ bottomText = WORLD
  /\ renders = EmptyBag /\ calls = <<>> /\ surfW = 600
  /\ surface = Canvas(TRUE, imageSrc, EmptyStr, EmptyStr, EmptyStr)

\* The sequences of a sequence, one after the other.
RECURSIVE Flatten(_)
Flatten(ss) == IF ss = <<>> THEN <<>> ELSE Head(ss) \o Flatten(Tail(ss))

\* The words of a wrapped line: what stands before each of its spaces.
WordsOfLine(wrapped) == split(SubSeq(wrapped, 1, Len(wrapped) - 1))

\* The finished wrap holds the caption's words, all of them, once each, whole
\* and in order, on at least one line, after one iteration per word.
WrapLossless ==
  rpc = "wrapped" =>
    /\ Len(loopLines) >= 1
    /\ loopN = Len(split(selectedCaption))
    /\ loopLines = WrapLines(selectedCaption, surfW)
    /\ \A i \in 1..Len(loopLines) :
         loopLines[i] # <<>> /\ loopLines[i][Len(loopLines[i])] = " "
    /\ Flatten(loopLines) = selectedCaption \o <<" ">>
    /\ Flatten([i \in 1..Len(loopLines) |-> WordsOfLine(loopLines[i])])
         = split(selectedCaption)

\* C22: the wrap loop ends, having advanced by one word per iteration, and
\* the lines it leaves read, line by line, as the caption's space-separated
\* words in their order, none dropped, repeated or split, on at least one
\* line.
C22_WrapLossless ==
  /\ []WrapLossless
  /\ [][rpc' = "wrapping" => loopN' = loopN + 1]_vars
  /\ <>(rpc = "wrapped")

C22_Witness ==
  /\ rpc = "wrapped" /\ selectedCaption = ABCDE
  /\ loopN = 5 /\ Len(loopLines) = 3
  /\ loopLines[3] = <<"E", " ">>

\* C23: for an image whose native width and height are both at least 1, the
\* canvas width and height the render pass sets are both at least 1.
C23_NoCollapse ==
  (rpc = "drawn" /\ natW >= 1 /\ natH >= 1) => (surfW >= 1 /\ surfH >= 1)

====
